---- MODULE Spec2Model ----
(***************************************************************************)
(* Resume Coach Agent (GEMINI_Project): the heuristic text pipeline of     *)
(* resume_coach/agent.py, the text-completion client of                    *)
(* resume_coach/llm.py and the command line entry point scripts/cli.py.    *)
(*                                                                         *)
(* A Python str is a sequence of characters; a character is a one-letter   *)
(* TLA+ string ("U+2022" stands for the bullet character).  A float score  *)
(* with one decimal is kept as the integer number of tenths (66.7 is 667). *)
(* Every behaviour is one invocation of one entry point, fn, on inputs     *)
(* drawn in Init; pc is the position inside that invocation.               *)
(***************************************************************************)
EXTENDS Integers, Sequences, FiniteSets

VARIABLES
    fn,               \* the entry point this behaviour invokes
    pc,               \* position inside the invocation
    args,             \* the arguments of the invocation
    ret,              \* the value returned (NoValue before the return)
    lines,            \* parse_resume / parse_jd: the lines being walked
    pos,              \* index of the next line of the for loop
    section,          \* the classifier's current section
    summary_lines,    \* parse_resume local
    skills,           \* parse_resume / parse_jd local
    experience,       \* parse_resume local
    title,            \* parse_jd local
    responsibilities, \* parse_jd local
    resume,           \* main: parse_resume(resume_text)
    jd,               \* main: parse_jd(jd_text)
    scored,           \* main: (score, missing) of match_and_score
    suggestions,      \* main: suggest_resume_updates(resume, jd)
    coaching,         \* main: generate_coaching_questions(jd)
    http,             \* main: what the single POST of call_gemini_flash met
    llm_out,          \* main: the string call_gemini_flash returned
    tailored,         \* main: the text chosen for the tailored resume
    out_file          \* main: the content written to args.out

vars == <<fn, pc, args, ret, lines, pos, section, summary_lines, skills,
          experience, title, responsibilities, resume, jd, scored,
          suggestions, coaching, http, llm_out, tailored, out_file>>

NoValue == "None"

(***************************************************************************)
(* Characters and the str methods the code uses.                           *)
(***************************************************************************)
UPPER == <<"A", "B", "C", "D", "E", "F", "G", "H", "I", "J", "K", "L", "M", "N", "O", "P", "Q", "R", "S", "T", "U", "V", "W", "X", "Y", "Z">>
LOWER == <<"a", "b", "c", "d", "e", "f", "g", "h", "i", "j", "k", "l", "m", "n", "o", "p", "q", "r", "s", "t", "u", "v", "w", "x", "y", "z">>

\* The characters of the model in code point order (sorted() compares
\* strings by code point).
CodeOrder ==
    <<"\t", "\n", " ", "\"", "%", "(", ")", "*", ",", "-", ".", "/",
      "0", "1", "2", "3", "4", "5", "6", "7", "8", "9", ":", ";", "<", ">",
      "?">> \o UPPER \o <<"_">> \o LOWER \o <<"{", "|", "}", "U+2022">>

Ord(c) == CHOOSE k \in 1..Len(CodeOrder) : CodeOrder[k] = c

DIGITS == {"0", "1", "2", "3", "4", "5", "6", "7", "8", "9"}

\* str.strip() / str.split() whitespace
IsSpace(c) == c \in {" ", "\t", "\n"}

MinOf(S) == CHOOSE x \in S : \A y \in S : x <= y
MaxOf(S) == CHOOSE x \in S : \A y \in S : x >= y

\* s[:k] for k >= 0
Take(s, k) == SubSeq(s, 1, IF k < Len(s) THEN k ELSE Len(s))

LowerChar(c) ==
    IF \E k \in 1..Len(UPPER) : UPPER[k] = c
    THEN LOWER[CHOOSE k \in 1..Len(UPPER) : UPPER[k] = c]
    ELSE c

\* str.lower()
Lower(s) == [k \in 1..Len(s) |-> LowerChar(s[k])]

\* str.startswith(p)
StartsWith(s, p) == Len(s) >= Len(p) /\ SubSeq(s, 1, Len(p)) = p

\* p in s
Contains(s, p) ==
    \E k \in 0..(Len(s) - Len(p)) : SubSeq(s, k + 1, k + Len(p)) = p

\* str.strip(chars) / str.lstrip(chars): cs is the set of stripped characters
StripChars(s, cs) ==
    LET keep == {k \in 1..Len(s) : s[k] \notin cs}
    IN  IF keep = {} THEN <<>> ELSE SubSeq(s, MinOf(keep), MaxOf(keep))

LStripChars(s, cs) ==
    LET keep == {k \in 1..Len(s) : s[k] \notin cs}
    IN  IF keep = {} THEN <<>> ELSE SubSeq(s, MinOf(keep), Len(s))

\* str.strip()
Strip(s) == StripChars(s, {" ", "\t", "\n"})

\* re.split(r'[...]', s) and s.split(sep): the pieces between separators,
\* empty pieces kept
RECURSIVE SplitOn(_, _)
SplitOn(s, seps) ==
    LET at == {k \in 1..Len(s) : s[k] \in seps}
    IN  IF at = {} THEN <<s>>
        ELSE <<SubSeq(s, 1, MinOf(at) - 1)>>
               \o SplitOn(SubSeq(s, MinOf(at) + 1, Len(s)), seps)

\* str.splitlines(): no line for an empty text, none after a final newline
SplitLines(s) ==
    LET parts == SplitOn(s, {"\n"})
    IN  IF s = <<>> THEN <<>>
        ELSE IF parts[Len(parts)] = <<>> THEN SubSeq(parts, 1, Len(parts) - 1)
        ELSE parts

\* len(s.split()): the number of whitespace-separated words
WordCount(s) ==
    Cardinality({k \in 1..Len(s) :
                    ~IsSpace(s[k]) /\ (k = 1 \/ IsSpace(s[k - 1]))})

\* sep.join(parts)
RECURSIVE Join(_, _)
Join(parts, sep) ==
    IF parts = <<>> THEN <<>>
    ELSE IF Len(parts) = 1 THEN parts[1]
    ELSE parts[1] \o sep \o Join(Tail(parts), sep)

\* [f(x) for x in s if keep(x)] with f = strip and keep = non-empty
RECURSIVE StripNonEmpty(_)
StripNonEmpty(parts) ==
    IF parts = <<>> THEN <<>>
    ELSE (IF Strip(parts[1]) = <<>> THEN <<>> ELSE <<Strip(parts[1])>>)
           \o StripNonEmpty(Tail(parts))

\* a < b for str: lexicographic by code point
RECURSIVE StrLess(_, _)
StrLess(a, b) ==
    IF b = <<>> THEN FALSE
    ELSE IF a = <<>> THEN TRUE
    ELSE IF a[1] = b[1] THEN StrLess(Tail(a), Tail(b))
    ELSE Ord(a[1]) < Ord(b[1])

\* sorted(list(S)) for a set S of str
RECURSIVE Sorted(_)
Sorted(S) ==
    IF S = {} THEN <<>>
    ELSE LET m == CHOOSE x \in S : \A y \in S \ {x} : StrLess(x, y)
         IN  <<m>> \o Sorted(S \ {m})

\* {f(s) for s in seq}
Range(seq) == {seq[k] : k \in 1..Len(seq)}

(***************************************************************************)
(* agent.py                                                                *)
(***************************************************************************)
VERB_KEYWORDS ==
    { <<"m", "a", "n", "a", "g", "e", "d">>, <<"l", "e", "d">>, <<"d", "e", "v", "e", "l", "o", "p", "e", "d">>, <<"d", "e", "s", "i", "g", "n", "e", "d">>, <<"i", "m", "p", "l", "e", "m", "e", "n", "t", "e", "d">>,
      <<"b", "u", "i", "l", "t">>, <<"c", "r", "e", "a", "t", "e", "d">>, <<"i", "m", "p", "r", "o", "v", "e", "d">>, <<"o", "p", "t", "i", "m", "i", "z", "e", "d">>, <<"a", "u", "t", "o", "m", "a", "t", "e", "d">>,
      <<"r", "e", "d", "u", "c", "e", "d">>, <<"i", "n", "c", "r", "e", "a", "s", "e", "d">>, <<"d", "e", "l", "i", "v", "e", "r", "e", "d">> }

_lines(text) == StripNonEmpty(SplitLines(text))

\* re.match(r'^(w1|w2|...)[:\- ]', llow)
HeaderMatch(llow, words) ==
    \E w \in words :
        /\ StartsWith(llow, w)
        /\ Len(llow) > Len(w)
        /\ llow[Len(w) + 1] \in {":", "-", " "}

IsSkillsHeader(llow) ==
    \/ HeaderMatch(llow, { <<"s", "k", "i", "l", "l", "s">>, <<"t", "e", "c", "h", "n", "i", "c", "a", "l", " ", "s", "k", "i", "l", "l", "s">>, <<"s", "k", "i", "l", "l", "s", "e", "t">> })
    \/ llow = <<"s", "k", "i", "l", "l", "s">>

IsExperienceHeader(llow) ==
    \/ HeaderMatch(llow, { <<"e", "x", "p", "e", "r", "i", "e", "n", "c", "e">>, <<"w", "o", "r", "k", " ", "e", "x", "p", "e", "r", "i", "e", "n", "c", "e">>,
                           <<"p", "r", "o", "f", "e", "s", "s", "i", "o", "n", "a", "l", " ", "e", "x", "p", "e", "r", "i", "e", "n", "c", "e">> })
    \/ llow = <<"e", "x", "p", "e", "r", "i", "e", "n", "c", "e">>

IsSummaryHeader(llow) ==
    \/ HeaderMatch(llow, { <<"s", "u", "m", "m", "a", "r", "y">>, <<"p", "r", "o", "f", "i", "l", "e">>, <<"p", "r", "o", "f", "e", "s", "s", "i", "o", "n", "a", "l", " ", "s", "u", "m", "m", "a", "r", "y">> })
    \/ llow = <<"s", "u", "m", "m", "a", "r", "y">>

\* the skill tokens of one line of a skills section
SkillTokens(line) == StripNonEmpty(SplitOn(line, {";", ",", "|"}))

\* any(v in llow for v in VERB_KEYWORDS)
HasVerb(llow) == \E v \in VERB_KEYWORDS : Contains(llow, v)

\* One iteration of the for loop of parse_resume: st holds the locals.
ResumeStep(st, line) ==
    LET llow == Lower(line)
    IN  IF IsSkillsHeader(llow) THEN [st EXCEPT !.section = "skills"]
        ELSE IF IsExperienceHeader(llow) THEN [st EXCEPT !.section = "experience"]
        ELSE IF IsSummaryHeader(llow) THEN [st EXCEPT !.section = "summary"]
        ELSE IF st.section = "skills"
             THEN [st EXCEPT !.skills = @ \o SkillTokens(line)]
        ELSE IF st.section = "experience"
             THEN [st EXCEPT !.experience = Append(@, line)]
        ELSE IF \/ line[1] \in {"-", "U+2022", "*"}
                \/ HasVerb(llow)
             THEN [st EXCEPT !.experience =
                      Append(@, Strip(LStripChars(line, {"-", "U+2022", "*", " "})))]
        ELSE IF Len(st.summary_lines) < 3 /\ WordCount(line) < 40
             THEN [st EXCEPT !.summary_lines = Append(@, line)]
        ELSE st

ResumeInit ==
    [section |-> NoValue, summary_lines |-> <<>>, skills |-> <<>>,
     experience |-> <<>>]

ResumeResult(st) ==
    [summary |-> Strip(Join(st.summary_lines, <<" ">>)),
     skills |-> st.skills, experience |-> st.experience]

RECURSIVE ResumeLoop(_, _)
ResumeLoop(st, ls) ==
    IF ls = <<>> THEN st ELSE ResumeLoop(ResumeStep(st, ls[1]), Tail(ls))

parse_resume(text) == ResumeResult(ResumeLoop(ResumeInit, _lines(text)))

\* One iteration of the for loop of parse_jd.
JdStep(st, line) ==
    LET llow == Lower(line)
        parts == StripNonEmpty(SplitOn(line, {","}))
    IN  IF \/ Contains(llow, <<"s", "k", "i", "l", "l", "s">>)
           \/ Contains(llow, <<"r", "e", "q", "u", "i", "r", "e", "m", "e", "n", "t", "s">>)
           \/ Contains(llow, <<"t", "e", "c", "h", "n", "o", "l", "o", "g", "i", "e", "s">>)
        THEN [st EXCEPT !.section = "skills"]
        ELSE IF Contains(llow, <<"r", "e", "s", "p", "o", "n", "s", "i", "b", "i", "l">>) \/ Contains(llow, <<"w", "h", "a", "t", " ", "y", "o", "u", " ", "w", "i", "l", "l">>)
        THEN [st EXCEPT !.section = "responsibilities"]
        ELSE IF st.section = "skills"
             THEN [st EXCEPT !.skills = @ \o SkillTokens(line)]
        ELSE IF st.section = "responsibilities"
             THEN [st EXCEPT !.responsibilities = Append(@, line)]
        ELSE IF Contains(line, <<",">>) /\ Len(line) < 120 /\ Len(parts) > 1
             THEN [st EXCEPT !.skills = @ \o parts]
        ELSE st

JdInit(ls) ==
    [title |-> IF ls = <<>> THEN <<>> ELSE ls[1], section |-> NoValue,
     skills |-> <<>>, responsibilities |-> <<>>]

JdResult(st) ==
    [title |-> st.title, skills |-> st.skills,
     responsibilities |-> st.responsibilities]

RECURSIVE JdLoop(_, _)
JdLoop(st, ls) ==
    IF ls = <<>> THEN st ELSE JdLoop(JdStep(st, ls[1]), Tail(ls))

parse_jd(text) ==
    LET ls == _lines(text)
    IN  JdResult(JdLoop(JdInit(ls), IF ls = <<>> THEN <<>> ELSE Tail(ls)))

\* RoundTenths cutting the second decimal off instead of rounding
RoundTenths_truncating(num, den) == (1000 * num) \div den

\* round(100.0 * num / den, 1) in tenths: the nearest tenth, a tie to even
RoundTenths(num, den) ==
    LET q == (1000 * num) \div den
        r == (1000 * num) % den
    IN  IF 2 * r > den THEN q + 1
        ELSE IF 2 * r < den THEN q
        ELSE IF q % 2 = 0 THEN q ELSE q + 1

\* match_and_score comparing the resume skills as written, not lower-cased
match_and_score_case_sensitive(resume_, jd_) ==
    LET resume_skills == Range(resume_.skills)
        jd_skills == {Lower(s) : s \in Range(jd_.skills)}
        matched == resume_skills \cap jd_skills
    IN  IF jd_skills = {} THEN [score |-> 0, missing |-> <<>>]
        ELSE [score |-> RoundTenths(Cardinality(matched), Cardinality(jd_skills)),
              missing |-> Sorted(jd_skills \ resume_skills)]

match_and_score(resume_, jd_) ==
    LET resume_skills == {Lower(s) : s \in Range(resume_.skills)}
        jd_skills == {Lower(s) : s \in Range(jd_.skills)}
        matched == resume_skills \cap jd_skills
    IN  IF jd_skills = {} THEN [score |-> 0, missing |-> <<>>]
        ELSE [score |-> RoundTenths(Cardinality(matched), Cardinality(jd_skills)),
              missing |-> Sorted(jd_skills \ resume_skills)]

MaxAddSkills == 10
TruncateAt == 240
METRIC_SUFFIX ==
    <<" ", "(", "i", "n", "c", "l", "u", "d", "e", " ", "q", "u", "a", "n", "t", "i", "f", "i", "a", "b", "l", "e", " ", "i", "m", "p", "a", "c", "t", ",", " ", "e", ".", "g", ".", ",", " ", "r", "e", "d", "u", "c", "e", "d", " ", "X", " ", "b", "y", " ", "Y", "%", " ", "o", "r", " ", "i", "m", "p", "r", "o", "v", "e", "d", " ", "t", "h", "r", "o", "u", "g", "h", "p", "u", "t", " ", "b", "y", " ", "N", ")">>

\* re.findall(r"\d+[\.,]?\d*%?|\d+", b) is non-empty
HasNumber(b) == \E k \in 1..Len(b) : b[k] \in DIGITS

\* the body of the for loop of suggest_resume_updates
RewriteBullet(b) ==
    IF HasNumber(b)
    THEN (IF Len(b) < TruncateAt THEN b ELSE Take(b, TruncateAt) \o <<".", ".", ".">>)
    ELSE b \o METRIC_SUFFIX

SuggestedSummary(resume_, jd_) ==
    IF jd_.title # <<>>
    THEN (IF resume_.summary # <<>>
          THEN jd_.title \o <<" ", "-", " ">> \o resume_.summary
          ELSE jd_.title \o <<" ", "c", "a", "n", "d", "i", "d", "a", "t", "e", " ", "w", "i", "t", "h", " ", "r", "e", "l", "e", "v", "a", "n", "t", " ", "e", "x", "p", "e", "r", "i", "e", "n", "c", "e", ".">>)
    ELSE resume_.summary

\* AddSkills without the cut to 10 entries
AddSkills_uncapped(missing) == missing

\* missing[:10]
AddSkills(missing) == Take(missing, MaxAddSkills)

suggest_resume_updates(resume_, jd_, max_suggestions) ==
    LET missing == match_and_score(resume_, jd_).missing
        bullets == Take(resume_.experience, max_suggestions)
    IN  [suggested_summary |-> SuggestedSummary(resume_, jd_),
         add_skills |-> AddSkills(missing),
         rewritten_experience |->
             [k \in 1..Len(bullets) |-> RewriteBullet(bullets[k])]]

SkillQuestion(s) ==
    [question |-> <<"C", "a", "n", " ", "y", "o", "u", " ", "d", "e", "s", "c", "r", "i", "b", "e", " ", "y", "o", "u", "r", " ", "e", "x", "p", "e", "r", "i", "e", "n", "c", "e", " ", "w", "i", "t", "h", " ">> \o s \o <<"?">>,
     tip |-> <<"M", "e", "n", "t", "i", "o", "n", " ", "s", "p", "e", "c", "i", "f", "i", "c", " ", "p", "r", "o", "j", "e", "c", "t", "s", ",", " ", "y", "o", "u", "r", " ", "r", "o", "l", "e", ",", " ", "t", "e", "c", "h", "n", "o", "l", "o", "g", "i", "e", "s", " ", "u", "s", "e", "d", ",", " ", "a", "n", "d", " ", "o", "u", "t", "c", "o", "m", "e", "s", " ", "o", "r", " ", "m", "e", "t", "r", "i", "c", "s", ".">>]

ResponsibilityQuestion(r) ==
    [question |-> <<"T", "e", "l", "l", " ", "m", "e", " ", "a", "b", "o", "u", "t", " ", "a", " ", "t", "i", "m", "e", " ", "y", "o", "u", " ">> \o Lower(StripChars(r, {"."})),
     tip |-> <<"U", "s", "e", " ", "S", "T", "A", "R", " ", "(", "S", "i", "t", "u", "a", "t", "i", "o", "n", ",", " ", "T", "a", "s", "k", ",", " ", "A", "c", "t", "i", "o", "n", ",", " ", "R", "e", "s", "u", "l", "t", ")", " ", "a", "n", "d", " ", "q", "u", "a", "n", "t", "i", "f", "y", " ", "r", "e", "s", "u", "l", "t", "s", " ", "w", "h", "e", "n", " ", "p", "o", "s", "s", "i", "b", "l", "e", ".">>]

GenericQuestion ==
    [question |-> <<"D", "e", "s", "c", "r", "i", "b", "e", " ", "a", " ", "t", "e", "c", "h", "n", "i", "c", "a", "l", " ", "c", "h", "a", "l", "l", "e", "n", "g", "e", " ", "y", "o", "u", " ", "s", "o", "l", "v", "e", "d", " ", "r", "e", "c", "e", "n", "t", "l", "y", ".">>,
     tip |-> <<"E", "x", "p", "l", "a", "i", "n", " ", "t", "r", "a", "d", "e", "-", "o", "f", "f", "s", ",", " ", "y", "o", "u", "r", " ", "a", "p", "p", "r", "o", "a", "c", "h", ",", " ", "a", "n", "d", " ", "m", "e", "a", "s", "u", "r", "a", "b", "l", "e", " ", "o", "u", "t", "c", "o", "m", "e", ".">>]

\* ResponsibilitySlice forgetting the questions already asked
ResponsibilitySlice_ignoring_asked(resps, n, asked) == Take(resps, n)

\* responsibilities[:max(0, n - len(questions))]
ResponsibilitySlice(resps, n, asked) ==
    Take(resps, IF n - asked > 0 THEN n - asked ELSE 0)

generate_coaching_questions(jd_, n) ==
    LET ss == Take(jd_.skills, n)
        q1 == [k \in 1..Len(ss) |-> SkillQuestion(ss[k])]
        rs == ResponsibilitySlice(jd_.responsibilities, n, Len(q1))
        q2 == q1 \o [k \in 1..Len(rs) |-> ResponsibilityQuestion(rs[k])]
    IN  q2 \o [k \in 1..(n - Len(q2)) |-> GenericQuestion]

\* line.startswith('-') or any(v in line.lower() for v in VERB_KEYWORDS)
IsBulletLine(line) == line[1] = "-" \/ HasVerb(Lower(line))

\* the lines tailor_resume_text puts before the walk of the original lines
TailorHead(sug) ==
    (IF sug.suggested_summary # <<>>
     THEN <<sug.suggested_summary, <<>> >> ELSE <<>>)
    \o (IF sug.add_skills # <<>>
        THEN << <<"S", "k", "i", "l", "l", "s", ":">>, Join(sug.add_skills, <<",", " ">>), <<>> >> ELSE <<>>)

\* the for loop of tailor_resume_text over the original lines
RECURSIVE TailorWalk(_, _, _, _)
TailorWalk(ls, rewritten, replaced, out) ==
    IF ls = <<>> THEN [out |-> out, replaced |-> replaced]
    ELSE IF replaced < Len(rewritten) /\ IsBulletLine(ls[1])
         THEN TailorWalk(Tail(ls), rewritten, replaced + 1,
                         Append(out, <<"-", " ">> \o rewritten[replaced + 1]))
    ELSE TailorWalk(Tail(ls), rewritten, replaced, Append(out, ls[1]))

\* TailorLeftover listing every rewritten entry, the used ones too
TailorLeftover_from_first(rewritten, replaced) ==
    IF replaced < Len(rewritten)
    THEN << <<>>, <<"E", "x", "p", "e", "r", "i", "e", "n", "c", "e", " ", "(", "s", "u", "g", "g", "e", "s", "t", "e", "d", " ", "i", "m", "p", "r", "o", "v", "e", "m", "e", "n", "t", "s", ")", ":">> >>
         \o [k \in 1..Len(rewritten) |-> <<"-", " ">> \o rewritten[k]]
    ELSE <<>>

\* the block appended when rewritten entries are left over
TailorLeftover(rewritten, replaced) ==
    IF replaced < Len(rewritten)
    THEN << <<>>, <<"E", "x", "p", "e", "r", "i", "e", "n", "c", "e", " ", "(", "s", "u", "g", "g", "e", "s", "t", "e", "d", " ", "i", "m", "p", "r", "o", "v", "e", "m", "e", "n", "t", "s", ")", ":">> >>
         \o [k \in 1..(Len(rewritten) - replaced) |->
                <<"-", " ">> \o rewritten[replaced + k]]
    ELSE <<>>

tailor_resume_text(original_text, sug) ==
    LET walk == TailorWalk(_lines(original_text), sug.rewritten_experience,
                           0, TailorHead(sug))
    IN  Join(walk.out \o TailorLeftover(sug.rewritten_experience, walk.replaced),
             <<"\n">>)

(***************************************************************************)
(* llm.py                                                                  *)
(***************************************************************************)
\* A str that is None: no sequence of characters equals it.
NoStr == <<NoValue>>

FAILURE_MARKER == <<"L", "L", "M", " ", "r", "e", "q", "u", "e", "s", "t", " ", "f", "a", "i", "l", "e", "d">>

\* str(status_code)
RECURSIVE IntToStr(_)
IntToStr(k) ==
    LET d == <<"0", "1", "2", "3", "4", "5", "6", "7", "8", "9">>
    IN  IF k < 10 THEN <<d[k + 1]>> ELSE IntToStr(k \div 10) \o <<d[(k % 10) + 1]>>

\* A parsed body is [isdict, candidates, output, dumps]: candidates is the list
\* under 'candidates' (empty when the key is absent), each candidate a function
\* from the keys it has to str; output is the str under 'output' or NoStr;
\* dumps is json.dumps of the body.
_extract_text_from_response(resp_json) ==
    LET cand == resp_json.candidates[1]
        has(k) == k \in DOMAIN cand
        cont == IF has("message.content") /\ cand["message.content"] # <<>>
                THEN cand["message.content"]
                ELSE IF has("message.text") THEN cand["message.text"]
                ELSE NoStr
        top == IF resp_json.output # NoStr THEN resp_json.output
               ELSE resp_json.dumps
    IN  IF ~resp_json.isdict THEN <<>>
        ELSE IF resp_json.candidates # <<>>
        THEN (IF has("content") THEN cand["content"]
              ELSE IF has("output") THEN cand["output"]
              ELSE IF has("text") THEN cand["text"]
              ELSE IF cont # NoStr THEN cont
              ELSE top)
        ELSE top

\* call_gemini_flash(prompt) with the key api_key_ (the argument, or the
\* environment's) when its POST meets outcome o
call_gemini_flash(api_key_, o) ==
    IF api_key_ = <<>> THEN [raised |-> TRUE, value |-> NoStr]
    ELSE IF o.kind = "exception"
    THEN [raised |-> FALSE, value |-> FAILURE_MARKER \o <<":", " ">> \o o.message]
    ELSE IF o.status_code # 200
    THEN [raised |-> FALSE,
          value |-> FAILURE_MARKER \o <<":", " ">> \o IntToStr(o.status_code)
                      \o <<" ">> \o o.text]
    ELSE IF ~o.parses THEN [raised |-> FALSE, value |-> o.text]
    ELSE [raised |-> FALSE, value |-> _extract_text_from_response(o.json)]

(***************************************************************************)
(* scripts/cli.py                                                          *)
(***************************************************************************)
\* llm_out and not llm_out.startswith('LLM request failed')
\*         and 'failed' not in llm_out.lower()
LlmAccepted(out) ==
    /\ out # <<>>
    /\ ~StartsWith(out, FAILURE_MARKER)
    /\ ~Contains(Lower(out), <<"f", "a", "i", "l", "e", "d">>)

(***************************************************************************)
(* The inputs of the model.                                                *)
(***************************************************************************)
MaxResumeLines == 3   \* lines of a resume text
MaxJdLines == 3       \* lines of a job description text
MaxSkills == 3        \* job description skills handed to match_and_score
MaxFewSkills == 2     \* resume skills (match_and_score), skills (coaching)
MaxLongSkills == 11   \* job description skills handed to suggest_resume_updates
MaxBullets == 2       \* experience bullets handed to suggest_resume_updates
MaxSuggestions == 3   \* max_suggestions
MaxResps == 2         \* responsibilities handed to generate_coaching_questions
MaxN == 5             \* n of generate_coaching_questions
MaxRewritten == 2     \* rewritten_experience handed to tailor_resume_text

\* all sequences over S of length at most k
SeqsUpTo(S, k) == UNION {[1..m -> S] : m \in 0..k}

\* c repeated k times
Repeat(c, k) == [j \in 1..k |-> c]

SCENARIO_SKILLS_LINE == <<"S", "k", "i", "l", "l", "s", ":", " ", "P", "y", "t", "h", "o", "n", ",", " ", "S", "Q", "L", ",", " ", "D", "o", "c", "k", "e", "r">>

ResumeLinePool ==
    { SCENARIO_SKILLS_LINE, <<"S", "K", "I", "L", "L", "S">>, <<"P", "y", "t", "h", "o", "n", ";", " ", "S", "Q", "L", " ", "|", " ", "D", "o", "c", "k", "e", "r", ",">>, <<"S", "u", "m", "m", "a", "r", "y">>,
      <<"E", "x", "p", "e", "r", "i", "e", "n", "c", "e", ":">>, <<"-", " ", "B", "u", "i", "l", "t", " ", "A", "P", "I", "s">>, <<" ", "L", "e", "d", " ", "a", " ", "t", "e", "a", "m", " ", "o", "f", " ", "5", " ">>,
      <<"D", "a", "t", "a", " ", "e", "n", "g", "i", "n", "e", "e", "r">>, <<"U+2022", " ">> \o <<"M", "a", "n", "a", "g", "e", "d", " ", "3", " ", "t", "e", "a", "m", "s">>, <<>> }

ResumeTexts ==
    {Join(ls, <<"\n">>) : ls \in SeqsUpTo(ResumeLinePool, MaxResumeLines)}

SCENARIO_TITLE == <<"S", "e", "n", "i", "o", "r", " ", "B", "a", "c", "k", "e", "n", "d", " ", "E", "n", "g", "i", "n", "e", "e", "r">>

JdLinePool ==
    { SCENARIO_TITLE, <<"R", "e", "q", "u", "i", "r", "e", "m", "e", "n", "t", "s", ":">>, <<"p", "y", "t", "h", "o", "n", ",", " ", "J", "a", "v", "a", ",", " ", "S", "Q", "L">>,
      <<"R", "e", "s", "p", "o", "n", "s", "i", "b", "i", "l", "i", "t", "i", "e", "s">>, <<"D", "e", "s", "i", "g", "n", " ", "A", "P", "I", "s", ".">>, <<"P", "y", "t", "h", "o", "n", ";", " ", "G", "o", ",", " ", "S", "Q", "L">>, <<>> }

JdTexts == {Join(ls, <<"\n">>) : ls \in SeqsUpTo(JdLinePool, MaxJdLines)}

SkillPool == { <<"P", "y", "t", "h", "o", "n">>, <<"p", "y", "t", "h", "o", "n">>, <<"S", "Q", "L">>, <<"J", "a", "v", "a">> }

LONG_SKILLS ==
    << <<"G", "o">>, <<"a", "w", "s">>, <<"S", "Q", "L">>, <<"R", "u", "s", "t">>, <<"j", "a", "v", "a">>, <<"C">>, <<"K", "a", "f", "k", "a">>,
       <<"R", "e", "d", "i", "s">>, <<"L", "i", "n", "u", "x">>, <<"D", "o", "c", "k", "e", "r">>, <<"G", "i", "t">>, <<"S", "p", "a", "r", "k">>, <<"R", "e", "a", "c", "t">>,
       <<"S", "c", "a", "l", "a">>, <<"P", "e", "r", "l">>, <<"R", "u", "b", "y">> >>

LongJdSkills ==
    {<<>>} \cup {Take(LONG_SKILLS, k) : k \in (MaxLongSkills - 2)..MaxLongSkills}

\* an experience bullet of exactly k characters that holds a number
NumberedBullet(k) == <<"C", "u", "t", " ", "l", "a", "t", "e", "n", "c", "y", " ", "b", "y", " ", "4", "0", "%">> \o Repeat("x", k - 18)

BulletPool ==
    { <<"B", "u", "i", "l", "t", " ", "A", "P", "I", "s">>, <<"L", "e", "d", " ", "a", " ", "t", "e", "a", "m", " ", "o", "f", " ", "5">>, NumberedBullet(TruncateAt - 1),
      NumberedBullet(TruncateAt), NumberedBullet(TruncateAt + 1) }

RespPool == { <<"D", "e", "s", "i", "g", "n", " ", "A", "P", "I", "s", ".">>, <<"L", "e", "a", "d", " ", "R", "e", "v", "i", "e", "w", "s">> }

Resumes(summaries, skillseqs, bulletseqs) ==
    [summary : summaries, skills : skillseqs, experience : bulletseqs]

Jds(titles, skillseqs, respseqs) ==
    [title : titles, skills : skillseqs, responsibilities : respseqs]

MatchArgs ==
    [resume : Resumes({<<>>}, SeqsUpTo(SkillPool, MaxFewSkills), {<<>>}),
     jd : Jds({<<>>}, SeqsUpTo(SkillPool, MaxSkills), {<<>>})]

SuggestArgs ==
    [resume : Resumes({<<>>, <<"D", "a", "t", "a", " ", "e", "n", "g", "i", "n", "e", "e", "r">>}, {<<>>, << <<"s", "q", "l">> >>},
                      SeqsUpTo(BulletPool, MaxBullets)),
     jd : Jds({<<>>, SCENARIO_TITLE}, LongJdSkills, {<<>>}),
     max_suggestions : 0..MaxSuggestions]

CoachArgs ==
    [jd : Jds({SCENARIO_TITLE}, SeqsUpTo(SkillPool, MaxFewSkills),
              SeqsUpTo(RespPool, MaxResps)),
     n : 0..MaxN]

TailorLinePool ==
    { <<"-", " ", "B", "u", "i", "l", "t", " ", "A", "P", "I", "s">>, <<" ", "L", "e", "d", " ", "a", " ", "t", "e", "a", "m", " ", "o", "f", " ", "5", " ">>, <<"D", "a", "t", "a", " ", "e", "n", "g", "i", "n", "e", "e", "r">>, <<>> }

TailorArgs ==
    [original_text :
         {Join(ls, <<"\n">>) : ls \in SeqsUpTo(TailorLinePool, MaxResumeLines)},
     suggestions :
         [suggested_summary : {<<>>, SCENARIO_TITLE},
          add_skills : {<<>>, << <<"j", "a", "v", "a">>, <<"s", "q", "l">> >>},
          rewritten_experience :
              SeqsUpTo({ <<"B", "u", "i", "l", "t", " ", "A", "P", "I", "s">> \o METRIC_SUFFIX, <<"L", "e", "d", " ", "a", " ", "t", "e", "a", "m", " ", "o", "f", " ", "5">> },
                       MaxRewritten)]]

\* what the one requests.post of call_gemini_flash can meet
Exception(msg) ==
    [kind |-> "exception", message |-> msg, status_code |-> 0, text |-> <<>>,
     parses |-> FALSE, json |-> NoValue]

Response(code, body, parses_, json_) ==
    [kind |-> "response", message |-> <<>>, status_code |-> code, text |-> body,
     parses |-> parses_, json |-> json_]

Json(isdict_, candidates_, output_, dumps_) ==
    [isdict |-> isdict_, candidates |-> candidates_, output |-> output_,
     dumps |-> dumps_]

TAILORED_BY_LLM == <<"B", "a", "c", "k", "e", "n", "d", " ", "e", "n", "g", "i", "n", "e", "e", "r", ",", " ", "5", " ", "y", "e", "a", "r", "s", " ", "o", "f", " ", "P", "y", "t", "h", "o", "n">>

HttpOutcomes ==
    { Exception(<<"t", "i", "m", "e", "d", " ", "o", "u", "t">>),
      Response(500, <<"I", "n", "t", "e", "r", "n", "a", "l", " ", "e", "r", "r", "o", "r">>, FALSE, NoValue),
      Response(404, <<>>, FALSE, NoValue),
      Response(200, <<"<", "h", "t", "m", "l", ">", "B", "a", "d", " ", "g", "a", "t", "e", "w", "a", "y", "<", "/", "h", "t", "m", "l", ">">>, FALSE, NoValue),
      Response(200, <<>>, FALSE, NoValue),
      Response(200, <<"[", "]">>, TRUE, Json(FALSE, <<>>, NoStr, <<"[", "]">>)),
      Response(200, <<"{", "\"", "c", "a", "n", "d", "i", "d", "a", "t", "e", "s", "\"", ":", " ", "[", "{", "\"", "c", "o", "n", "t", "e", "n", "t", "\"", ":", " ", "\"", ".", ".", ".", "\"", "}", "]", "}">>, TRUE,
               Json(TRUE, << [content |-> TAILORED_BY_LLM] >>, NoStr, <<>>)),
      Response(200, <<"{", "\"", "c", "a", "n", "d", "i", "d", "a", "t", "e", "s", "\"", ":", " ", "[", "{", "\"", "m", "e", "s", "s", "a", "g", "e", "\"", ":", " ", "{", "\"", "t", "e", "x", "t", "\"", ":", " ", "\"", ".", ".", ".", "\"", "}", "}", "]", "}">>, TRUE,
               Json(TRUE, << [x \in {"message.text"} |-> TAILORED_BY_LLM] >>,
                    NoStr, <<>>)),
      Response(200, <<"{", "\"", "o", "u", "t", "p", "u", "t", "\"", ":", " ", "\"", ".", ".", ".", "\"", "}">>, TRUE,
               Json(TRUE, <<>>, TAILORED_BY_LLM, <<>>)),
      Response(200, <<"{", "\"", "e", "r", "r", "o", "r", "\"", ":", " ", "\"", "q", "u", "o", "t", "a", "\"", "}">>, TRUE,
               Json(TRUE, <<>>, NoStr, <<"{", "\"", "e", "r", "r", "o", "r", "\"", ":", " ", "\"", "q", "u", "o", "t", "a", "\"", "}">>)) }

CliResumeTexts ==
    { <<>>,
      Join(<< <<"D", "a", "t", "a", " ", "e", "n", "g", "i", "n", "e", "e", "r">>, <<"S", "k", "i", "l", "l", "s">>, <<"P", "y", "t", "h", "o", "n", ",", " ", "S", "Q", "L">>, <<"E", "x", "p", "e", "r", "i", "e", "n", "c", "e">>,
              <<"L", "e", "d", " ", "a", " ", "t", "e", "a", "m", " ", "o", "f", " ", "5">> >>, <<"\n">>),
      Join(<< SCENARIO_SKILLS_LINE, <<"-", " ", "B", "u", "i", "l", "t", " ", "A", "P", "I", "s">> >>, <<"\n">>) }

CliJdTexts ==
    { <<>>,
      SCENARIO_TITLE,
      Join(<< SCENARIO_TITLE, <<"R", "e", "q", "u", "i", "r", "e", "m", "e", "n", "t", "s", ":">>, <<"p", "y", "t", "h", "o", "n", ",", " ", "J", "a", "v", "a", ",", " ", "S", "Q", "L">>,
              <<"R", "e", "s", "p", "o", "n", "s", "i", "b", "i", "l", "i", "t", "i", "e", "s">>, <<"D", "e", "s", "i", "g", "n", " ", "A", "P", "I", "s", ".">> >>, <<"\n">>),
      Join(<< SCENARIO_TITLE, <<"P", "y", "t", "h", "o", "n", ";", " ", "G", "o", ",", " ", "S", "Q", "L">> >>, <<"\n">>),
      Join(<< SCENARIO_TITLE, <<"R", "e", "q", "u", "i", "r", "e", "m", "e", "n", "t", "s", ":">>,
              <<"E", "x", "p", "e", "r", "i", "e", "n", "c", "e", " ", "w", "i", "t", "h", " ", "A", "W", "S", ",", " ", "D", "o", "c", "k", "e", "r">> >>, <<"\n">>) }

API_KEY == <<"k", "e", "y">>

MainArgs ==
    [resume_text : CliResumeTexts, jd_text : CliJdTexts,
     GOOGLE_API_KEY : {<<>>, API_KEY}]

DEFAULT_MAX_SUGGESTIONS == 6
DEFAULT_N == 8

(***************************************************************************)
(* The state machine.                                                      *)
(***************************************************************************)
Idle ==
    /\ pc = "entry"
    /\ ret = NoValue
    /\ lines = <<>>
    /\ pos = 0
    /\ section = NoValue
    /\ summary_lines = <<>>
    /\ skills = <<>>
    /\ experience = <<>>
    /\ title = <<>>
    /\ responsibilities = <<>>
    /\ resume = NoValue
    /\ jd = NoValue
    /\ scored = NoValue
    /\ suggestions = NoValue
    /\ coaching = NoValue
    /\ http = NoValue
    /\ llm_out = NoStr
    /\ tailored = NoStr
    /\ out_file = NoStr

Init ==
    /\ Idle
    /\ \/ fn = "parse_resume" /\ args \in [text : ResumeTexts]
       \/ fn = "parse_jd" /\ args \in [text : JdTexts]
       \/ fn = "match_and_score" /\ args \in MatchArgs
       \/ fn = "suggest_resume_updates" /\ args \in SuggestArgs
       \/ fn = "generate_coaching_questions" /\ args \in CoachArgs
       \/ fn = "tailor_resume_text" /\ args \in TailorArgs
       \/ fn = "main" /\ args \in MainArgs

parseLocals == <<lines, pos, section, summary_lines, skills, experience, title,
                 responsibilities>>
mainLocals == <<resume, jd, scored, suggestions, coaching, http, llm_out,
                tailored, out_file>>

\* parse_resume, lines 21-26
ParseResumeEnter ==
    /\ fn = "parse_resume" /\ pc = "entry"
    /\ lines' = _lines(args.text)
    /\ pos' = 1
    /\ section' = ResumeInit.section
    /\ summary_lines' = ResumeInit.summary_lines
    /\ skills' = ResumeInit.skills
    /\ experience' = ResumeInit.experience
    /\ pc' = "loop"
    /\ UNCHANGED <<fn, args, ret, title, responsibilities, mainLocals>>

\* parse_resume, lines 27-56: one iteration of the for loop
ParseResumeLine ==
    /\ fn = "parse_resume" /\ pc = "loop" /\ pos <= Len(lines)
    /\ LET st == ResumeStep([section |-> section, summary_lines |-> summary_lines,
                             skills |-> skills, experience |-> experience],
                            lines[pos])
       IN  /\ section' = st.section
           /\ summary_lines' = st.summary_lines
           /\ skills' = st.skills
           /\ experience' = st.experience
    /\ pos' = pos + 1
    /\ UNCHANGED <<fn, pc, args, ret, lines, title, responsibilities, mainLocals>>

\* parse_resume, lines 58-59
ParseResumeReturn ==
    /\ fn = "parse_resume" /\ pc = "loop" /\ pos > Len(lines)
    /\ ret' = ResumeResult([section |-> section, summary_lines |-> summary_lines,
                            skills |-> skills, experience |-> experience])
    /\ pc' = "returned"
    /\ UNCHANGED <<fn, args, parseLocals, mainLocals>>

\* parse_jd, lines 63-67
ParseJdEnter ==
    /\ fn = "parse_jd" /\ pc = "entry"
    /\ lines' = _lines(args.text)
    /\ pos' = 2
    /\ title' = JdInit(lines').title
    /\ section' = JdInit(lines').section
    /\ skills' = JdInit(lines').skills
    /\ responsibilities' = JdInit(lines').responsibilities
    /\ pc' = "loop"
    /\ UNCHANGED <<fn, args, ret, summary_lines, experience, mainLocals>>

\* parse_jd, lines 68-92: one iteration of the for loop
ParseJdLine ==
    /\ fn = "parse_jd" /\ pc = "loop" /\ pos <= Len(lines)
    /\ LET st == JdStep([title |-> title, section |-> section, skills |-> skills,
                         responsibilities |-> responsibilities], lines[pos])
       IN  /\ section' = st.section
           /\ skills' = st.skills
           /\ responsibilities' = st.responsibilities
    /\ pos' = pos + 1
    /\ UNCHANGED <<fn, pc, args, ret, lines, title, summary_lines, experience,
                   mainLocals>>

\* parse_jd, line 94
ParseJdReturn ==
    /\ fn = "parse_jd" /\ pc = "loop" /\ pos > Len(lines)
    /\ ret' = JdResult([title |-> title, section |-> section, skills |-> skills,
                        responsibilities |-> responsibilities])
    /\ pc' = "returned"
    /\ UNCHANGED <<fn, args, parseLocals, mainLocals>>

CallMatchAndScore ==
    /\ fn = "match_and_score" /\ pc = "entry"
    /\ ret' = match_and_score(args.resume, args.jd)
    /\ pc' = "returned"
    /\ UNCHANGED <<fn, args, parseLocals, mainLocals>>

CallSuggestResumeUpdates ==
    /\ fn = "suggest_resume_updates" /\ pc = "entry"
    /\ ret' = suggest_resume_updates(args.resume, args.jd, args.max_suggestions)
    /\ pc' = "returned"
    /\ UNCHANGED <<fn, args, parseLocals, mainLocals>>

CallGenerateCoachingQuestions ==
    /\ fn = "generate_coaching_questions" /\ pc = "entry"
    /\ ret' = generate_coaching_questions(args.jd, args.n)
    /\ pc' = "returned"
    /\ UNCHANGED <<fn, args, parseLocals, mainLocals>>

CallTailorResumeText ==
    /\ fn = "tailor_resume_text" /\ pc = "entry"
    /\ ret' = tailor_resume_text(args.original_text, args.suggestions)
    /\ pc' = "returned"
    /\ UNCHANGED <<fn, args, parseLocals, mainLocals>>

\* main, lines 29-30
MainParse ==
    /\ fn = "main" /\ pc = "entry"
    /\ resume' = parse_resume(args.resume_text)
    /\ jd' = parse_jd(args.jd_text)
    /\ pc' = "parsed"
    /\ UNCHANGED <<fn, args, ret, parseLocals, scored, suggestions, coaching,
                   http, llm_out, tailored, out_file>>

\* main, lines 32-34
MainAnalyse ==
    /\ fn = "main" /\ pc = "parsed"
    /\ scored' = match_and_score(resume, jd)
    /\ suggestions' = suggest_resume_updates(resume, jd, DEFAULT_MAX_SUGGESTIONS)
    /\ coaching' = generate_coaching_questions(jd, DEFAULT_N)
    /\ pc' = "analysed"
    /\ UNCHANGED <<fn, args, ret, parseLocals, resume, jd, http, llm_out,
                   tailored, out_file>>

\* main, lines 37-38: no GOOGLE_API_KEY, no request
MainSkipLlm ==
    /\ fn = "main" /\ pc = "analysed"
    /\ args.GOOGLE_API_KEY = <<>>
    /\ pc' = "decided"
    /\ UNCHANGED <<fn, args, ret, parseLocals, resume, jd, scored, suggestions,
                   coaching, http, llm_out, tailored, out_file>>

\* main, lines 38-48: the one request and the sniffing of its result
MainCallLlm ==
    /\ fn = "main" /\ pc = "analysed"
    /\ args.GOOGLE_API_KEY # <<>>
    /\ \E o \in HttpOutcomes :
          LET r == call_gemini_flash(args.GOOGLE_API_KEY, o)
          IN  /\ http' = o
              /\ llm_out' = r.value
              /\ tailored' = IF LlmAccepted(r.value) THEN r.value ELSE tailored
    /\ pc' = "decided"
    /\ UNCHANGED <<fn, args, ret, parseLocals, resume, jd, scored, suggestions,
                   coaching, out_file>>

\* main, lines 50-51: not tailored
MainFallback ==
    /\ fn = "main" /\ pc = "decided"
    /\ tailored \in {NoStr, <<>>}
    /\ tailored' = tailor_resume_text(args.resume_text, suggestions)
    /\ pc' = "ready"
    /\ UNCHANGED <<fn, args, ret, parseLocals, resume, jd, scored, suggestions,
                   coaching, http, llm_out, out_file>>

\* main, line 53
MainWrite ==
    /\ fn = "main"
    /\ \/ pc = "ready"
       \/ pc = "decided" /\ tailored \notin {NoStr, <<>>}
    /\ out_file' = tailored
    /\ pc' = "done"
    /\ UNCHANGED <<fn, args, ret, parseLocals, resume, jd, scored, suggestions,
                   coaching, http, llm_out, tailored>>

Next ==
    \/ ParseResumeEnter
    \/ ParseResumeLine
    \/ ParseResumeReturn
    \/ ParseJdEnter
    \/ ParseJdLine
    \/ ParseJdReturn
    \/ CallMatchAndScore
    \/ CallSuggestResumeUpdates
    \/ CallGenerateCoachingQuestions
    \/ CallTailorResumeText
    \/ MainParse
    \/ MainAnalyse
    \/ MainSkipLlm
    \/ MainCallLlm
    \/ MainFallback
    \/ MainWrite

Spec == Init /\ [][Next]_vars

(***************************************************************************)
(* Properties.                                                             *)
(***************************************************************************)
Returned(f) == fn = f /\ pc = "returned"

LowerSet(seq) == {Lower(x) : x \in Range(seq)}

\* the skill tokens written after the header word and its separator
InlineTokens(line) ==
    LET words == { <<"s", "k", "i", "l", "l", "s">>, <<"t", "e", "c", "h", "n", "i", "c", "a", "l", " ", "s", "k", "i", "l", "l", "s">>, <<"s", "k", "i", "l", "l", "s", "e", "t">> }
        w == CHOOSE v \in words : HeaderMatch(Lower(line), {v})
    IN  SkillTokens(SubSeq(line, Len(w) + 2, Len(line)))

HasInlineSkills(line) ==
    /\ HeaderMatch(Lower(line), { <<"s", "k", "i", "l", "l", "s">>, <<"t", "e", "c", "h", "n", "i", "c", "a", "l", " ", "s", "k", "i", "l", "l", "s">>, <<"s", "k", "i", "l", "l", "s", "e", "t">> })
    /\ InlineTokens(line) # <<>>

\* part appears in whole as a run of consecutive entries
IsRunOf(part, whole) ==
    \E k \in 0..(Len(whole) - Len(part)) : SubSeq(whole, k + 1, k + Len(part)) = part

\* C1: parse_resume of the text "Skills: Python, SQL, Docker" returns
\* skills = [Python, SQL, Docker]; in general the skill tokens written on a
\* skills header line, after the separator, are in the returned skills, in order.
C1_InlineSkillsExtracted ==
    Returned("parse_resume") =>
        /\ args.text = SCENARIO_SKILLS_LINE =>
               ret.skills = << <<"P", "y", "t", "h", "o", "n">>, <<"S", "Q", "L">>, <<"D", "o", "c", "k", "e", "r">> >>
        /\ \A k \in 1..Len(_lines(args.text)) :
               HasInlineSkills(_lines(args.text)[k]) =>
                   IsRunOf(InlineTokens(_lines(args.text)[k]), ret.skills)

\* C2: the missing list of match_and_score is the ascending, duplicate-free
\* list of the lower-cased job description skills that are not lower-cased
\* resume skills: within the job description's set, disjoint from the
\* resume's, and empty when the job description has no skills.
C2_MissingSortedDifference ==
    Returned("match_and_score") =>
        LET R == LowerSet(args.resume.skills)
            J == LowerSet(args.jd.skills)
            m == ret.missing
        IN  /\ Range(m) = J \ R
            /\ Range(m) \subseteq J
            /\ Range(m) \cap R = {}
            /\ \A k \in 1..(Len(m) - 1) : StrLess(m[k], m[k + 1])
            /\ (args.jd.skills = <<>> => m = <<>>)

C2_Witness ==
    /\ Returned("match_and_score")
    /\ Len(ret.missing) >= 2
    /\ \E x \in Range(args.resume.skills) :
           /\ x \notin Range(args.jd.skills)
           /\ Lower(x) \in LowerSet(args.jd.skills)
           /\ Lower(x) # x

\* C3: the score of match_and_score is 0.0 when the job description has no
\* skills and otherwise 100 * |R \cap J| / |J| rounded to one decimal, R and J
\* the lower-cased skill sets; it lies in [0, 100]; resume skills Python, SQL
\* against job description skills python, Java, SQL give 66.7 and missing [java].
C3_ScoreIsRoundedOverlap ==
    Returned("match_and_score") =>
        LET R == LowerSet(args.resume.skills)
            J == LowerSet(args.jd.skills)
            num == 1000 * Cardinality(R \cap J)
            den == Cardinality(J)
            err == ret.score * den - num
        IN  /\ J = {} => ret.score = 0
            /\ J # {} => 2 * err <= den /\ -2 * err <= den
            /\ 0 <= ret.score /\ ret.score <= 1000
            /\ (/\ args.resume.skills = << <<"P", "y", "t", "h", "o", "n">>, <<"S", "Q", "L">> >>
                /\ args.jd.skills = << <<"p", "y", "t", "h", "o", "n">>, <<"J", "a", "v", "a">>, <<"S", "Q", "L">> >>)
               => ret.score = 667 /\ ret.missing = << <<"j", "a", "v", "a">> >>

C3_Witness ==
    /\ Returned("match_and_score")
    /\ args.resume.skills = << <<"P", "y", "t", "h", "o", "n">>, <<"S", "Q", "L">> >>
    /\ args.jd.skills = << <<"p", "y", "t", "h", "o", "n">>, <<"J", "a", "v", "a">>, <<"S", "Q", "L">> >>
    /\ ret.score = 667

\* C4: generate_coaching_questions returns exactly n entries for every n >= 0:
\* first one question per skill in order, then one per responsibility in order
\* in the slots that remain, then the generic question until there are n.
C4_ExactlyNQuestions ==
    Returned("generate_coaching_questions") =>
        LET ss == args.jd.skills
            rs == args.jd.responsibilities
        IN  /\ Len(ret) = args.n
            /\ \A k \in 1..Len(ret) :
                   ret[k] = IF k <= Len(ss) THEN SkillQuestion(ss[k])
                            ELSE IF k <= Len(ss) + Len(rs)
                                 THEN ResponsibilityQuestion(rs[k - Len(ss)])
                            ELSE GenericQuestion

C4_Witness ==
    /\ Returned("generate_coaching_questions")
    /\ args.jd.skills # <<>>
    /\ args.jd.responsibilities # <<>>
    /\ args.n > Len(args.jd.skills) + Len(args.jd.responsibilities)
    /\ ret[args.n] = GenericQuestion

\* the number of bullet lines among the first k lines
BulletsUpTo(ls, k) == Cardinality({j \in 1..k : IsBulletLine(ls[j])})

\* C5: tailor_resume_text replaces min(bullet lines, len(rewritten_experience))
\* original lines, the first such lines, by the rewritten entries in order (as
\* "- " bullets); every other line passes through in place; the entries left
\* over, and only then, follow an "Experience (suggested improvements):"
\* heading at the end, in order.
C5_TailorSubstitution ==
    Returned("tailor_resume_text") =>
        LET ls == _lines(args.original_text)
            rw == args.suggestions.rewritten_experience
            m == BulletsUpTo(ls, Len(ls))
            used == IF m < Len(rw) THEN m ELSE Len(rw)
            body == [k \in 1..Len(ls) |->
                        IF IsBulletLine(ls[k]) /\ BulletsUpTo(ls, k) <= Len(rw)
                        THEN <<"-", " ">> \o rw[BulletsUpTo(ls, k)]
                        ELSE ls[k]]
            rest == [k \in 1..(Len(rw) - used) |-> <<"-", " ">> \o rw[used + k]]
            tail == IF rest = <<>> THEN <<>>
                    ELSE << <<>>, <<"E", "x", "p", "e", "r", "i", "e", "n", "c", "e", " ", "(", "s", "u", "g", "g", "e", "s", "t", "e", "d", " ", "i", "m", "p", "r", "o", "v", "e", "m", "e", "n", "t", "s", ")", ":">> >> \o rest
        IN  /\ ret = Join(TailorHead(args.suggestions) \o body \o tail, <<"\n">>)
            /\ Cardinality({k \in 1..Len(ls) :
                   IsBulletLine(ls[k]) /\ BulletsUpTo(ls, k) <= Len(rw)}) = used

C5_Witness ==
    /\ Returned("tailor_resume_text")
    /\ LET ls == _lines(args.original_text)
       IN  /\ BulletsUpTo(ls, Len(ls)) = 1
           /\ Len(ls) = 2
           /\ Len(args.suggestions.rewritten_experience) = 2
    /\ Contains(ret, <<"E", "x", "p", "e", "r", "i", "e", "n", "c", "e", " ", "(", "s", "u", "g", "g", "e", "s", "t", "e", "d", " ", "i", "m", "p", "r", "o", "v", "e", "m", "e", "n", "t", "s", ")", ":">>)

\* C6: re-parsing the skills block tailor_resume_text emits (the "Skills:"
\* line and the comma-joined skill line) with parse_resume gives back the
\* add_skills of suggest_resume_updates, in order.
C6_SkillsBlockRoundTrip ==
    (fn = "main" /\ pc = "ready" /\ suggestions.add_skills # <<>>) =>
        LET block == TailorHead([suggested_summary |-> <<>>,
                                 add_skills |-> suggestions.add_skills])
        IN  /\ Contains(tailored, Join(block, <<"\n">>))
            /\ parse_resume(Join(block, <<"\n">>)).skills = suggestions.add_skills

\* C7: add_skills of suggest_resume_updates is the missing list of
\* match_and_score cut to its first 10 entries: never longer than 10, sorted.
C7_AddSkillsPrefix ==
    Returned("suggest_resume_updates") =>
        LET missing == match_and_score(args.resume, args.jd).missing
            add == ret.add_skills
        IN  /\ Len(add) <= 10
            /\ Len(add) = (IF Len(missing) < 10 THEN Len(missing) ELSE 10)
            /\ \A k \in 1..Len(add) : add[k] = missing[k]
            /\ \A k \in 1..(Len(add) - 1) : StrLess(add[k], add[k + 1])

C7_Witness ==
    /\ Returned("suggest_resume_updates")
    /\ Len(match_and_score(args.resume, args.jd).missing) > 10
    /\ Len(ret.add_skills) = 10

\* a transport error, a non-success status or a body that does not parse
IsFailure(o) == o.kind = "exception" \/ o.status_code # 200 \/ ~o.parses

\* C8: when the one request ends in a transport error, a non-success status or
\* an unparsable body, call_gemini_flash returns a string that begins with
\* "LLM request failed" and main writes the output of tailor_resume_text.
C8_FailureFallsBack ==
    (fn = "main" /\ pc = "done" /\ args.GOOGLE_API_KEY # <<>> /\ IsFailure(http)) =>
        /\ StartsWith(llm_out, FAILURE_MARKER)
        /\ out_file = tailor_resume_text(args.resume_text, suggestions)

IsResumeHeader(line) ==
    \/ IsSkillsHeader(Lower(line))
    \/ IsExperienceHeader(Lower(line))
    \/ IsSummaryHeader(Lower(line))

IsJdHeader(line) ==
    \/ Contains(Lower(line), <<"s", "k", "i", "l", "l", "s">>)
    \/ Contains(Lower(line), <<"r", "e", "q", "u", "i", "r", "e", "m", "e", "n", "t", "s">>)
    \/ Contains(Lower(line), <<"t", "e", "c", "h", "n", "o", "l", "o", "g", "i", "e", "s">>)
    \/ Contains(Lower(line), <<"r", "e", "s", "p", "o", "n", "s", "i", "b", "i", "l">>)
    \/ Contains(Lower(line), <<"w", "h", "a", "t", " ", "y", "o", "u", " ", "w", "i", "l", "l">>)

\* C9: in parse_resume and parse_jd, once a header has set the section, every
\* later line that is no header is assigned to that section and to no other,
\* whatever it looks like, and leaves the section as it is.
C9_SectionSticky ==
    [][ /\ (/\ fn = "parse_resume" /\ pc = "loop" /\ pos <= Len(lines)
            /\ section # NoValue /\ ~IsResumeHeader(lines[pos]))
           => /\ section' = section
              /\ skills' = IF section = "skills"
                           THEN skills \o SkillTokens(lines[pos]) ELSE skills
              /\ experience' = IF section = "experience"
                               THEN Append(experience, lines[pos]) ELSE experience
              /\ summary_lines' = IF section = "summary"
                                  THEN Append(summary_lines, lines[pos])
                                  ELSE summary_lines
        /\ (/\ fn = "parse_jd" /\ pc = "loop" /\ pos <= Len(lines)
            /\ section # NoValue /\ ~IsJdHeader(lines[pos]))
           => /\ section' = section
              /\ skills' = IF section = "skills"
                           THEN skills \o SkillTokens(lines[pos]) ELSE skills
              /\ responsibilities' = IF section = "responsibilities"
                                     THEN Append(responsibilities, lines[pos])
                                     ELSE responsibilities ]_vars

\* C10: rewritten_experience has min(len(experience), max_suggestions) entries,
\* the k-th from the k-th bullet: a bullet holding a number is unchanged unless
\* it is longer than 240 characters, then it is its first 240 characters and an
\* ellipsis; a bullet holding no number is followed by the metric suffix.
C10_RewrittenExperience ==
    Returned("suggest_resume_updates") =>
        LET ex == args.resume.experience
            rw == ret.rewritten_experience
        IN  /\ Len(rw) = (IF Len(ex) < args.max_suggestions
                          THEN Len(ex) ELSE args.max_suggestions)
            /\ \A k \in 1..Len(rw) :
                   rw[k] = IF HasNumber(ex[k])
                           THEN (IF Len(ex[k]) > 240
                                 THEN SubSeq(ex[k], 1, 240) \o <<".", ".", ".">>
                                 ELSE ex[k])
                           ELSE ex[k] \o METRIC_SUFFIX
====
